---- MODULE Spec2Model ----
(***************************************************************************)
(* A model of src/src/ipset.c: the netlink message builders                *)
(* (new_add_to_ipset, new_add_mac_to_ipset, flush_ipset), the attribute    *)
(* encoder add_attr, the retry loop around sendto (retry_send) and the     *)
(* dispatcher add_to_ipset.                                                *)
(*                                                                         *)
(* Every thread that calls into the file has its own stack frame (buffer,  *)
(* nested[], errno); the retry counter `retries` is a function-local       *)
(* static and therefore shared by all threads.                             *)
(***************************************************************************)
EXTENDS Integers, Sequences, FiniteSets, TLC

(* ------------------------------------------------------------------ *)
(* Program constants                                                   *)
(* ------------------------------------------------------------------ *)
NFNL_SUBSYS_IPSET == 6
IPSET_ATTR_ETHER == 17
IPSET_ATTR_DATA == 7
IPSET_ATTR_IP == 1
IPSET_ATTR_IPADDR_IPV4 == 1
IPSET_ATTR_IPADDR_IPV6 == 2
IPSET_ATTR_PROTOCOL == 1
IPSET_ATTR_SETNAME == 2
IPSET_CMD_ADD == 9
IPSET_CMD_DEL == 10
IPSET_CMD_FLUSH == 4
IPSET_MAXNAMELEN == 32
IPSET_PROTOCOL == 6
NFNETLINK_V0 == 0
NLA_F_NESTED == 32768
NLA_F_NET_BYTEORDER == 16384
INADDRSZ == 4
INETHSZ == 6
\* The mutant of BUFF_SZ: room for two set names only.
BUFF_SZ_small == 2 * IPSET_MAXNAMELEN
\* #define BUFF_SZ 256
BUFF_SZ == 256
RetryCeiling == 1000

\* Values of the system headers the file is compiled against (Linux).
AF_INET == 2
NLM_F_REQUEST == 1
SizeofNlmsghdr == 16
SizeofNfgenmsg == 4
SizeofNlattr == 4
EINTR == 4
EAGAIN == 11
ENAMETOOLONG == 36
ENOBUFS == 105

(* ------------------------------------------------------------------ *)
(* Bounds of the model                                                 *)
(* ------------------------------------------------------------------ *)
\* Set names of every length 0..MaxNameLen.
MaxNameLen == 33
\* sendto calls per operation where the retry loop is not explored to its ceiling.
ShortAttempts == 3
\* Signals delivered to one operation (interrupting a sendto or a nanosleep).
MaxIntr == 1
\* sendto calls explored beyond the RetryCeiling + 1 of an uninterrupted run.
ExtraAttempts == 2

MaxAttempts == RetryCeiling + 1 + ExtraAttempts

(* ------------------------------------------------------------------ *)
(* Arithmetic and bytes                                                *)
(* ------------------------------------------------------------------ *)
Max(a, b) == IF a >= b THEN a ELSE b

\* The mutant of NL_ALIGN: the length is rounded down ((len) & ~(3)).
NL_ALIGN_down(len) == len - (len % 4)

\* #define NL_ALIGN(len) (((len)+3) & ~(3))
NL_ALIGN(len) == ((len + 3) \div 4) * 4

RECURSIVE BitOr(_, _)
BitOr(a, b) ==
    IF a = 0 THEN b
    ELSE IF b = 0 THEN a
    ELSE (IF a % 2 = 1 \/ b % 2 = 1 THEN 1 ELSE 0) + 2 * BitOr(a \div 2, b \div 2)

U8(v) == v % 256
U16(v) == v % 65536

\* The bytes of a 16-bit and of a 32-bit integer in the machine's byte order.
Enc16(be, v) ==
    IF be THEN <<(v \div 256) % 256, v % 256>>
    ELSE <<v % 256, (v \div 256) % 256>>

Enc32(be, v) ==
    IF be THEN <<(v \div 16777216) % 256, (v \div 65536) % 256, (v \div 256) % 256, v % 256>>
    ELSE <<v % 256, (v \div 256) % 256, (v \div 65536) % 256, (v \div 16777216) % 256>>

\* char buffer[BUFF_SZ] = {0};
ZeroBuffer == [i \in 0..(BUFF_SZ - 1) |-> 0]

\* A store of `bytes` at offset `off`; bytes beyond the array do not land in it.
Store(buf, off, bytes) ==
    [i \in DOMAIN buf |->
        IF i >= off /\ i < off + Len(bytes) THEN bytes[i - off + 1] ELSE buf[i]]

Load16(be, buf, off) ==
    IF be THEN buf[off] * 256 + buf[off + 1] ELSE buf[off] + buf[off + 1] * 256

Load32(be, buf, off) ==
    IF be THEN buf[off] * 16777216 + buf[off + 1] * 65536 + buf[off + 2] * 256 + buf[off + 3]
    ELSE buf[off] + buf[off + 1] * 256 + buf[off + 2] * 65536 + buf[off + 3] * 16777216

\* struct nlmsghdr: nlmsg_len at 0, nlmsg_type at 4, nlmsg_flags at 6, seq at 8, pid at 12.
NlmsgLen(be, buf) == Load32(be, buf, 0)
\* (nlmsg_len is a __u32; the lengths of this file stay below 2^16.)
SetNlmsgLen(be, buf, v) == Store(buf, 0, Enc32(be, v))
NlmsgType(be, buf) == Load16(be, buf, 4)
NlmsgFlags(be, buf) == Load16(be, buf, 6)

(* ------------------------------------------------------------------ *)
(* Inputs                                                              *)
(* ------------------------------------------------------------------ *)
\* A C string of length n: its bytes, without the terminating zero.
MkName(n) == [i \in 1..n |-> 97 + (i % 26)]

NameLens == 0..MaxNameLen

\* const char *setname: a null pointer, or a pointer to a string.
NullName == [null |-> TRUE, chars |-> <<>>]
SetNames == {NullName} \cup {[null |-> FALSE, chars |-> MkName(n)] : n \in NameLens}

\* The set names of the runs that explore the whole retry loop.
RetryNames == {NullName, [null |-> FALSE, chars |-> MkName(1)]}

\* What a read through a null setname can find when it does not fault.
GarbageStrs == {MkName(2), MkName(IPSET_MAXNAMELEN)}

\* const char *val, by what the validators and the parsers of the C library make
\* of it: the class it is recognised as, whether the parser accepts it, and the
\* bytes the parser yields (struct in_addr holds them in network order).
IpValue == [cls |-> "ip", parses |-> TRUE, bytes |-> <<192, 0, 2, 1>>]
IpUnparsed == [cls |-> "ip", parses |-> FALSE, bytes |-> <<>>]
MacValue == [cls |-> "mac", parses |-> TRUE, bytes |-> <<170, 187, 204, 221, 238, 255>>]
MacUnparsed == [cls |-> "mac", parses |-> FALSE, bytes |-> <<>>]
NoValue == [cls |-> "none", parses |-> FALSE, bytes |-> <<>>]
Values == {IpValue, IpUnparsed, MacValue, MacUnparsed, NoValue}

is_valid_ip(val) == val.cls = "ip"
is_valid_mac(val) == val.cls = "mac"
inet_aton(val) == IF val.parses THEN 1 ELSE 0
ether_aton(val) == val.parses

Flags == {0, 1}

\* The outcomes of one sendto: accepted, or -1 with errno set.
SendErrnos == {EAGAIN, EINTR, ENOBUFS}
SendOutcomes == {0} \cup SendErrnos

\* The values of the retry counter at which a signal delivery is explored.
IntrPoints == {0, RetryCeiling - 1, RetryCeiling}

(* ------------------------------------------------------------------ *)
(* State                                                               *)
(* ------------------------------------------------------------------ *)
VARIABLES
    env,        \* fixed during a run: the threads that call into the file, the
                \* byte order of the machine, and the inputs explored
    retries,    \* static int retries (retry_send), shared by all threads
    pc,         \* per thread: where it is in the code
    call,       \* per thread: the public call in progress and its arguments
    builder,    \* per thread: the function whose frame is live
    str,        \* per thread: the bytes read through setname
    buffer,     \* per thread: char buffer[BUFF_SZ]
    nested,     \* per thread: the offsets nested[0], nested[1]
    errno,      \* per thread: errno
    rc,         \* per thread: the value of the last sendto
    ret,        \* per thread: the value returned to the caller
    attempts,   \* per thread: sendto calls of the call in progress
    signals,    \* per thread: signals delivered during the call in progress
    allAgain,   \* per thread: every sendto of the call so far failed with EAGAIN
    run,        \* per thread: the sendto failures with EAGAIN in a row, up to the last sendto
    wrote       \* per thread: the end of the highest store into buffer

vars == <<env, retries, pc, call, builder, str, buffer, nested,
          errno, rc, ret, attempts, signals, allAgain, run, wrote>>

NoCall == [fn |-> "none", setname |-> NullName, val |-> NoValue, flag |-> 0]

InitOver(ts, e) ==
    /\ env = e
    /\ retries = 0
    /\ pc = [t \in ts |-> "idle"]
    /\ call = [t \in ts |-> NoCall]
    /\ builder = [t \in ts |-> "none"]
    /\ str = [t \in ts |-> <<>>]
    /\ buffer = [t \in ts |-> ZeroBuffer]
    /\ nested = [t \in ts |-> <<0, 0>>]
    /\ errno = [t \in ts |-> 0]
    /\ rc = [t \in ts |-> 0]
    /\ ret = [t \in ts |-> 0]
    /\ attempts = [t \in ts |-> 0]
    /\ signals = [t \in ts |-> 0]
    /\ allAgain = [t \in ts |-> TRUE]
    /\ run = [t \in ts |-> 0]
    /\ wrote = [t \in ts |-> 0]

\* One thread, every set name, both byte orders, a few sendto calls per operation.
Init ==
    \E be \in BOOLEAN :
        InitOver({1}, [threads |-> {1}, bigEndian |-> be, names |-> SetNames,
                       garbage |-> GarbageStrs, cap |-> <<ShortAttempts>>,
                       outcomes |-> SendOutcomes, saturate |-> FALSE])

\* One thread, one set name, and the whole retry loop.
InitRetry ==
    InitOver({1}, [threads |-> {1}, bigEndian |-> FALSE, names |-> RetryNames,
                   garbage |-> {MkName(IPSET_MAXNAMELEN)}, cap |-> <<MaxAttempts>>,
                   outcomes |-> SendOutcomes, saturate |-> FALSE])

\* One thread and one set name; the counts of a call saturate, so a loop is not
\* cut short by them.
InitLive ==
    InitOver({1}, [threads |-> {1}, bigEndian |-> FALSE, names |-> RetryNames,
                   garbage |-> {MkName(IPSET_MAXNAMELEN)}, cap |-> <<ShortAttempts>>,
                   outcomes |-> SendOutcomes, saturate |-> TRUE])

\* Two threads call into the file with no lock between them; sendto is accepted
\* or fails with EAGAIN, and no signal arrives. The loop of thread 1 is explored
\* in full, that of thread 2 for a few sendto calls.
InitConc ==
    InitOver({1, 2}, [threads |-> {1, 2}, bigEndian |-> FALSE, names |-> RetryNames,
                      garbage |-> {MkName(IPSET_MAXNAMELEN)},
                      cap |-> <<MaxAttempts, ShortAttempts>>,
                      outcomes |-> {0, EAGAIN}, saturate |-> FALSE])

Upd(f, t, v) == [f EXCEPT ![t] = v]

(* ------------------------------------------------------------------ *)
(* add_attr                                                            *)
(* ------------------------------------------------------------------ *)
\* Where add_attr puts the attribute: (void *)nlh + NL_ALIGN(nlh->nlmsg_len).
AttrOffset(be, buf) == NL_ALIGN(NlmsgLen(be, buf))

\* uint16_t payload_len = NL_ALIGN(sizeof(struct my_nlattr)) + len;
PayloadLen(len) == U16(NL_ALIGN(SizeofNlattr) + len)

\* The mutants of add_attr: the aligned length is written into the header; the
\* message length advances by the unaligned length.
add_attr_aligned_len(be, buf, type, data) ==
    LET off == AttrOffset(be, buf)
        payload_len == PayloadLen(Len(data))
        b1 == Store(buf, off + 2, Enc16(be, U16(type)))
        b2 == Store(b1, off, Enc16(be, NL_ALIGN(payload_len)))
        b3 == Store(b2, off + NL_ALIGN(SizeofNlattr), data)
    IN  SetNlmsgLen(be, b3, NlmsgLen(be, b3) + NL_ALIGN(payload_len))

add_attr_unaligned_advance(be, buf, type, data) ==
    LET off == AttrOffset(be, buf)
        payload_len == PayloadLen(Len(data))
        b1 == Store(buf, off + 2, Enc16(be, U16(type)))
        b2 == Store(b1, off, Enc16(be, payload_len))
        b3 == Store(b2, off + NL_ALIGN(SizeofNlattr), data)
    IN  SetNlmsgLen(be, b3, NlmsgLen(be, b3) + payload_len)

\* struct my_nlattr: nla_len at 0, nla_type at 2; the payload follows the header.
add_attr(be, buf, type, data) ==
    LET off == AttrOffset(be, buf)
        payload_len == PayloadLen(Len(data))
        b1 == Store(buf, off + 2, Enc16(be, U16(type)))
        b2 == Store(b1, off, Enc16(be, payload_len))
        b3 == Store(b2, off + NL_ALIGN(SizeofNlattr), data)
    IN  SetNlmsgLen(be, b3, NlmsgLen(be, b3) + NL_ALIGN(payload_len))

\* The end of the bytes add_attr stores.
AttrEnd(be, buf, data) == AttrOffset(be, buf) + NL_ALIGN(SizeofNlattr) + Len(data)

(* ------------------------------------------------------------------ *)
(* retry_send                                                          *)
(* ------------------------------------------------------------------ *)
\* The mutant of retry_send: one retry more (retries++ <= 1000).
retry_send_le(rcv, e, r, slept_intr) ==
    IF rcv # -1 THEN [retries |-> 0, errno |-> 0, ret |-> 0]
    ELSE IF e = EAGAIN
         THEN LET e1 == IF slept_intr THEN EINTR ELSE e
              IN  IF r <= RetryCeiling
                  THEN [retries |-> r + 1, errno |-> e1, ret |-> 1]
                  ELSE [retries |-> 0, errno |-> e1, ret |-> IF e1 = EINTR THEN 1 ELSE 0]
         ELSE [retries |-> 0, errno |-> e, ret |-> IF e = EINTR THEN 1 ELSE 0]

\* The mutant of retry_send: an accepted send leaves errno as it was.
retry_send_keeps_errno(rcv, e, r, slept_intr) ==
    IF rcv # -1 THEN [retries |-> 0, errno |-> e, ret |-> 0]
    ELSE IF e = EAGAIN
         THEN LET e1 == IF slept_intr THEN EINTR ELSE e
              IN  IF r < RetryCeiling
                  THEN [retries |-> r + 1, errno |-> e1, ret |-> 1]
                  ELSE [retries |-> 0, errno |-> e1, ret |-> IF e1 = EINTR THEN 1 ELSE 0]
         ELSE [retries |-> 0, errno |-> e, ret |-> IF e = EINTR THEN 1 ELSE 0]

\* The mutant of retry_send: an interrupted send is counted like backpressure.
retry_send_intr_counted(rcv, e, r, slept_intr) ==
    IF rcv # -1 THEN [retries |-> 0, errno |-> 0, ret |-> 0]
    ELSE IF e = EAGAIN \/ e = EINTR
         THEN LET e1 == IF slept_intr THEN EINTR ELSE e
              IN  IF r < RetryCeiling
                  THEN [retries |-> r + 1, errno |-> e1, ret |-> 1]
                  ELSE [retries |-> 0, errno |-> e1, ret |-> 0]
         ELSE [retries |-> 0, errno |-> e, ret |-> 0]

\* The mutant of retry_send: every failure but an exhausted ceiling is retried.
retry_send_other_retried(rcv, e, r, slept_intr) ==
    IF rcv # -1 THEN [retries |-> 0, errno |-> 0, ret |-> 0]
    ELSE IF e = EAGAIN
         THEN LET e1 == IF slept_intr THEN EINTR ELSE e
              IN  IF r < RetryCeiling
                  THEN [retries |-> r + 1, errno |-> e1, ret |-> 1]
                  ELSE [retries |-> 0, errno |-> e1, ret |-> IF e1 = EINTR THEN 1 ELSE 0]
         ELSE [retries |-> 0, errno |-> e, ret |-> 1]

\* The mutant of retry_send: the counter is not reset when the loop is left
\* (no retries = 0 before the test of EINTR).
retry_send_keeps_count(rcv, e, r, slept_intr) ==
    IF rcv # -1 THEN [retries |-> 0, errno |-> 0, ret |-> 0]
    ELSE IF e = EAGAIN
         THEN LET e1 == IF slept_intr THEN EINTR ELSE e
              IN  IF r < RetryCeiling
                  THEN [retries |-> r + 1, errno |-> e1, ret |-> 1]
                  ELSE [retries |-> r, errno |-> e1, ret |-> IF e1 = EINTR THEN 1 ELSE 0]
         ELSE [retries |-> r, errno |-> e, ret |-> IF e = EINTR THEN 1 ELSE 0]

\* The mutant of retry_send: an interrupted send is retried with the counter as
\* it was.
retry_send_intr_keeps_count(rcv, e, r, slept_intr) ==
    IF rcv # -1 THEN [retries |-> 0, errno |-> 0, ret |-> 0]
    ELSE IF e = EAGAIN
         THEN LET e1 == IF slept_intr THEN EINTR ELSE e
              IN  IF r < RetryCeiling
                  THEN [retries |-> r + 1, errno |-> e1, ret |-> 1]
                  ELSE [retries |-> 0, errno |-> e1, ret |-> IF e1 = EINTR THEN 1 ELSE 0]
         ELSE IF e = EINTR
              THEN [retries |-> r, errno |-> e, ret |-> 1]
              ELSE [retries |-> 0, errno |-> e, ret |-> 0]

\* The mutant of retry_send: an interrupted send ends the loop.
retry_send_intr_gives_up(rcv, e, r, slept_intr) ==
    IF rcv # -1 THEN [retries |-> 0, errno |-> 0, ret |-> 0]
    ELSE IF e = EAGAIN
         THEN LET e1 == IF slept_intr THEN EINTR ELSE e
              IN  IF r < RetryCeiling
                  THEN [retries |-> r + 1, errno |-> e1, ret |-> 1]
                  ELSE [retries |-> 0, errno |-> e1, ret |-> 0]
         ELSE [retries |-> 0, errno |-> e, ret |-> 0]

\* The mutant of retry_send: an accepted send leaves the counter as it was.
retry_send_success_keeps_count(rcv, e, r, slept_intr) ==
    IF rcv # -1 THEN [retries |-> r, errno |-> 0, ret |-> 0]
    ELSE IF e = EAGAIN
         THEN LET e1 == IF slept_intr THEN EINTR ELSE e
              IN  IF r < RetryCeiling
                  THEN [retries |-> r + 1, errno |-> e1, ret |-> 1]
                  ELSE [retries |-> 0, errno |-> e1, ret |-> IF e1 = EINTR THEN 1 ELSE 0]
         ELSE [retries |-> 0, errno |-> e, ret |-> IF e = EINTR THEN 1 ELSE 0]

\* retry_send(rc) with errno = e and retries = r on entry; slept_intr says that
\* nanosleep was interrupted by a signal, which sets errno to EINTR.
\* Yields the new retries, the new errno and the value returned.
retry_send(rcv, e, r, slept_intr) ==
    IF rcv # -1 THEN [retries |-> 0, errno |-> 0, ret |-> 0]
    ELSE IF e = EAGAIN
         THEN LET e1 == IF slept_intr THEN EINTR ELSE e
              IN  IF r < RetryCeiling
                  THEN [retries |-> r + 1, errno |-> e1, ret |-> 1]
                  ELSE [retries |-> 0, errno |-> e1, ret |-> IF e1 = EINTR THEN 1 ELSE 0]
         ELSE [retries |-> 0, errno |-> e, ret |-> IF e = EINTR THEN 1 ELSE 0]

(* ------------------------------------------------------------------ *)
(* The builders' choices                                               *)
(* ------------------------------------------------------------------ *)
\* The mutants of NameTooLong: the ceiling itself is accepted; the empty name is
\* rejected too.
NameTooLong_gt(s) == Len(s) > IPSET_MAXNAMELEN
NameTooLong_or_empty(s) == Len(s) = 0 \/ Len(s) >= IPSET_MAXNAMELEN

\* strlen(setname) >= IPSET_MAXNAMELEN
NameTooLong(s) == Len(s) >= IPSET_MAXNAMELEN

\* The mutant of Command: the hardware-address builder honours the flag too.
Command_mac_remove(fn, remove) ==
    CASE fn = "flush_ipset" -> IPSET_CMD_FLUSH
      [] OTHER -> IF remove # 0 THEN IPSET_CMD_DEL ELSE IPSET_CMD_ADD

\* The command of nlmsg_type, by builder.
Command(fn, remove) ==
    CASE fn = "new_add_to_ipset" -> IF remove # 0 THEN IPSET_CMD_DEL ELSE IPSET_CMD_ADD
      [] fn = "new_add_mac_to_ipset" -> IPSET_CMD_ADD
      [] OTHER -> IPSET_CMD_FLUSH

\* The mutant of Family: flush_ipset leaves the family of the zeroed buffer.
Family_flush_unspec(fn) == IF fn = "flush_ipset" THEN 0 ELSE AF_INET

\* nfg->nfgen_family, by builder: add_to_ipset passes af = AF_INET, flush_ipset
\* writes AF_INET itself.
Family(fn) == AF_INET

\* The step after the set-name attribute, by builder.
AfterName(fn) ==
    CASE fn = "new_add_to_ipset" -> "open0"
      [] fn = "new_add_mac_to_ipset" -> "ether"
      [] OTHER -> "sendto"

\* A store that ends beyond the array is undefined: the thread goes on or the
\* process faults.
StepTo(t, end, next) ==
    /\ wrote' = Upd(wrote, t, Max(wrote[t], end))
    /\ \/ pc' = Upd(pc, t, next)
       \/ /\ end > BUFF_SZ
          /\ pc' = [u \in env.threads |-> "crashed"]

(* ------------------------------------------------------------------ *)
(* Public entry points                                                 *)
(* ------------------------------------------------------------------ *)
Idle(t) == pc[t] = "idle"

\* A call enters builder fn: its locals are fresh, buffer is zeroed.
Enter(t, fn, c) ==
    /\ call' = Upd(call, t, c)
    /\ builder' = Upd(builder, t, fn)
    /\ str' = Upd(str, t, c.setname.chars)
    /\ buffer' = Upd(buffer, t, ZeroBuffer)
    /\ nested' = Upd(nested, t, <<0, 0>>)
    /\ rc' = Upd(rc, t, 0)
    /\ ret' = Upd(ret, t, 0)
    /\ attempts' = Upd(attempts, t, 0)
    /\ signals' = Upd(signals, t, 0)
    /\ allAgain' = Upd(allAgain, t, TRUE)
    /\ run' = Upd(run, t, 0)
    /\ wrote' = Upd(wrote, t, 0)
    /\ pc' = Upd(pc, t, "check")

\* add_to_ipset returns -1 without calling a builder.
Refuse(t, c) ==
    /\ call' = Upd(call, t, c)
    /\ builder' = Upd(builder, t, "none")
    /\ str' = Upd(str, t, <<>>)
    /\ buffer' = Upd(buffer, t, ZeroBuffer)
    /\ nested' = Upd(nested, t, <<0, 0>>)
    /\ rc' = Upd(rc, t, 0)
    /\ ret' = Upd(ret, t, -1)
    /\ attempts' = Upd(attempts, t, 0)
    /\ signals' = Upd(signals, t, 0)
    /\ allAgain' = Upd(allAgain, t, TRUE)
    /\ run' = Upd(run, t, 0)
    /\ wrote' = Upd(wrote, t, 0)
    /\ pc' = Upd(pc, t, "done")

\* The mutant of Dispatch: a value that is no address is handed on as a
\* hardware address.
Dispatch_unchecked(val) ==
    IF is_valid_ip(val) /\ inet_aton(val) # 0 THEN "new_add_to_ipset"
    ELSE "new_add_mac_to_ipset"

\* The builder add_to_ipset calls for val, or "none" where it returns -1 itself.
Dispatch(val) ==
    IF is_valid_ip(val)
    THEN IF inet_aton(val) = 0 THEN "none" ELSE "new_add_to_ipset"
    ELSE IF is_valid_mac(val)
    THEN IF ~ether_aton(val) THEN "none" ELSE "new_add_mac_to_ipset"
    ELSE "none"

add_to_ipset(t) ==
    /\ Idle(t)
    /\ \E setname \in env.names, val \in Values, flag \in Flags :
         LET c == [fn |-> "add_to_ipset", setname |-> setname, val |-> val, flag |-> flag]
         IN  IF Dispatch(val) = "none" THEN Refuse(t, c) ELSE Enter(t, Dispatch(val), c)
    /\ UNCHANGED <<env, retries, errno>>

flush_ipset(t) ==
    /\ Idle(t)
    /\ \E setname \in env.names :
         Enter(t, "flush_ipset",
               [fn |-> "flush_ipset", setname |-> setname, val |-> NoValue, flag |-> 0])
    /\ UNCHANGED <<env, retries, errno>>

(* ------------------------------------------------------------------ *)
(* The steps of the builders                                           *)
(* ------------------------------------------------------------------ *)
\* The name check on the bytes s read through setname.
Checked(t, s) ==
    /\ str' = Upd(str, t, s)
    /\ IF NameTooLong(s)
       THEN /\ errno' = Upd(errno, t, ENAMETOOLONG)
            /\ ret' = Upd(ret, t, -1)
            /\ pc' = Upd(pc, t, "done")
       ELSE /\ pc' = Upd(pc, t, "hdr")
            /\ UNCHANGED <<errno, ret>>

\* if (strlen(setname) >= IPSET_MAXNAMELEN), and in flush_ipset
\* if (setname == NULL || strlen(setname) >= IPSET_MAXNAMELEN)
CheckName(t) ==
    /\ pc[t] = "check"
    /\ IF call[t].setname.null
       THEN /\ builder[t] = "flush_ipset"
            /\ errno' = Upd(errno, t, ENAMETOOLONG)
            /\ ret' = Upd(ret, t, -1)
            /\ pc' = Upd(pc, t, "done")
            /\ UNCHANGED str
       ELSE Checked(t, str[t])
    /\ UNCHANGED <<env, retries, call, builder, buffer, nested,
                   rc, attempts, signals, allAgain, run, wrote>>

\* strlen(setname) with setname == NULL in new_add_to_ipset and
\* new_add_mac_to_ipset: the read faults, or finds whatever bytes are there.
StrlenNull(t) ==
    /\ pc[t] = "check"
    /\ call[t].setname.null
    /\ builder[t] # "flush_ipset"
    /\ \/ /\ pc' = [u \in env.threads |-> "crashed"]
          /\ UNCHANGED <<str, errno, ret>>
       \/ \E g \in env.garbage : Checked(t, g)
    /\ UNCHANGED <<env, retries, call, builder, buffer, nested,
                   rc, attempts, signals, allAgain, run, wrote>>

\* nlh->nlmsg_len = NL_ALIGN(sizeof(struct nlmsghdr)); nlmsg_type; nlmsg_flags
WriteHeader(t) ==
    /\ pc[t] = "hdr"
    /\ LET be == env.bigEndian
           b1 == SetNlmsgLen(be, buffer[t], NL_ALIGN(SizeofNlmsghdr))
           type == BitOr(Command(builder[t], call[t].flag), NFNL_SUBSYS_IPSET * 256)
           b2 == Store(b1, 4, Enc16(be, U16(type)))
           b3 == Store(b2, 6, Enc16(be, NLM_F_REQUEST))
       IN  /\ buffer' = Upd(buffer, t, b3)
           /\ StepTo(t, 8, "nfg")
    /\ UNCHANGED <<env, retries, call, builder, str, nested,
                   errno, rc, ret, attempts, signals, allAgain, run>>

\* nfg = buffer + nlh->nlmsg_len; nlmsg_len += NL_ALIGN(sizeof(struct my_nfgenmsg));
\* nfgen_family, version, res_id = htons(0)
WriteFamily(t) ==
    /\ pc[t] = "nfg"
    /\ LET be == env.bigEndian
           off == NlmsgLen(be, buffer[t])
           b1 == SetNlmsgLen(be, buffer[t], off + NL_ALIGN(SizeofNfgenmsg))
           b2 == Store(b1, off, <<U8(Family(builder[t])), NFNETLINK_V0, 0, 0>>)
       IN  /\ buffer' = Upd(buffer, t, b2)
           /\ StepTo(t, off + SizeofNfgenmsg, "proto")
    /\ UNCHANGED <<env, retries, call, builder, str, nested,
                   errno, rc, ret, attempts, signals, allAgain, run>>

\* One add_attr call of a builder, at step `at`.
AttrStep(t, at, type, data, next) ==
    /\ pc[t] = at
    /\ buffer' = Upd(buffer, t, add_attr(env.bigEndian, buffer[t], type, data))
    /\ StepTo(t, AttrEnd(env.bigEndian, buffer[t], data), next)
    /\ UNCHANGED <<env, retries, call, builder, str, nested,
                   errno, rc, ret, attempts, signals, allAgain, run>>

\* proto = IPSET_PROTOCOL; add_attr(nlh, IPSET_ATTR_PROTOCOL, sizeof(proto), &proto);
AddProtocol(t) ==
    AttrStep(t, "proto", IPSET_ATTR_PROTOCOL, <<IPSET_PROTOCOL>>, "name")

\* add_attr(nlh, IPSET_ATTR_SETNAME, strlen(setname) + 1, setname);
AddSetname(t) ==
    AttrStep(t, "name", IPSET_ATTR_SETNAME, str[t] \o <<0>>, AfterName(builder[t]))

\* add_attr(nlh, (af == AF_INET ? IPV4 : IPV6) | NLA_F_NET_BYTEORDER, addrsz, ipaddr);
AddIpaddr(t) ==
    AttrStep(t, "ipaddr",
             BitOr(IF Family(builder[t]) = AF_INET
                   THEN IPSET_ATTR_IPADDR_IPV4 ELSE IPSET_ATTR_IPADDR_IPV6,
                   NLA_F_NET_BYTEORDER),
             SubSeq(call[t].val.bytes, 1, INADDRSZ), "close1")

\* add_attr(nlh, IPSET_ATTR_ETHER, addrsz, eth_addr->ether_addr_octet);
AddEther(t) ==
    AttrStep(t, "ether", IPSET_ATTR_ETHER, SubSeq(call[t].val.bytes, 1, INETHSZ), "sendto")

\* nested[k] = buffer + NL_ALIGN(nlh->nlmsg_len);
\* nlh->nlmsg_len += NL_ALIGN(sizeof(struct my_nlattr)); nested[k]->nla_type = ...
OpenNested(t, at, k, type, next) ==
    /\ pc[t] = at
    /\ LET be == env.bigEndian
           off == NL_ALIGN(NlmsgLen(be, buffer[t]))
           b1 == SetNlmsgLen(be, buffer[t], NlmsgLen(be, buffer[t]) + NL_ALIGN(SizeofNlattr))
           b2 == Store(b1, off + 2, Enc16(be, U16(type)))
       IN  /\ nested' = Upd(nested, t, [nested[t] EXCEPT ![k] = off])
           /\ buffer' = Upd(buffer, t, b2)
           /\ StepTo(t, off + SizeofNlattr, next)
    /\ UNCHANGED <<env, retries, call, builder, str,
                   errno, rc, ret, attempts, signals, allAgain, run>>

\* nested[0], of type NLA_F_NESTED | IPSET_ATTR_DATA
OpenData(t) == OpenNested(t, "open0", 1, BitOr(NLA_F_NESTED, IPSET_ATTR_DATA), "open1")

\* nested[1], of type NLA_F_NESTED | IPSET_ATTR_IP
OpenIp(t) == OpenNested(t, "open1", 2, BitOr(NLA_F_NESTED, IPSET_ATTR_IP), "ipaddr")

\* The mutant of FrameLen: the frame's own header is left out of its length.
FrameLen_payload_only(be, buf, start) ==
    U16(NL_ALIGN(NlmsgLen(be, buf)) - start - NL_ALIGN(SizeofNlattr))

\* The length a closing frame gets:
\* (void *)buffer + NL_ALIGN(nlh->nlmsg_len) - (void *)nested[k]
FrameLen(be, buf, start) == U16(NL_ALIGN(NlmsgLen(be, buf)) - start)

\* nested[k]->nla_len = ...
CloseNested(t, at, k, next) ==
    /\ pc[t] = at
    /\ LET be == env.bigEndian
           start == nested[t][k]
       IN  /\ buffer' = Upd(buffer, t,
                            Store(buffer[t], start, Enc16(be, FrameLen(be, buffer[t], start))))
           /\ StepTo(t, start + 2, next)
    /\ UNCHANGED <<env, retries, call, builder, str, nested,
                   errno, rc, ret, attempts, signals, allAgain, run>>

\* nested[1]->nla_len is written first,
CloseIp(t) == CloseNested(t, "close1", 2, "close0")

\* then nested[0]->nla_len.
CloseData(t) == CloseNested(t, "close0", 1, "sendto")

(* ------------------------------------------------------------------ *)
(* The send loop: while (retry_send(sendto(...))) ;                    *)
(* ------------------------------------------------------------------ *)
\* A count of the call in progress, one up: it stops at top where the counts
\* saturate, so that a loop can go on for ever.
Count(n, top) == IF env.saturate /\ n >= top THEN top ELSE n + 1

\* Thread t is in the loop while (retry_send(sendto(...))).
InLoop(t) == pc[t] \in {"sendto", "retry"}

\* A signal can be delivered to thread t now.
CanSignal(t) == (env.saturate \/ signals[t] < MaxIntr) /\ retries \in IntrPoints

\* sendto(ipset_sock, buffer, nlh->nlmsg_len, 0, &snl, sizeof(snl)): it accepts the
\* message and returns its length, or returns -1 and sets errno.
Sendto(t) ==
    /\ pc[t] = "sendto"
    /\ env.saturate \/ attempts[t] < env.cap[t]
    /\ \E out \in env.outcomes :
         /\ out = EINTR => CanSignal(t)
         /\ rc' = Upd(rc, t, IF out = 0 THEN NlmsgLen(env.bigEndian, buffer[t]) ELSE -1)
         /\ errno' = Upd(errno, t, IF out = 0 THEN errno[t] ELSE out)
         /\ signals' = Upd(signals, t, IF out = EINTR THEN Count(signals[t], MaxIntr)
                                                      ELSE signals[t])
         /\ allAgain' = Upd(allAgain, t, allAgain[t] /\ out = EAGAIN)
         /\ run' = Upd(run, t, IF out = EAGAIN THEN Count(run[t], RetryCeiling + 1) ELSE 0)
    /\ attempts' = Upd(attempts, t, Count(attempts[t], env.cap[t]))
    /\ pc' = Upd(pc, t, "retry")
    /\ UNCHANGED <<env, retries, call, builder, str, buffer, nested,
                   ret, wrote>>

\* retry_send(rc): back to sendto when it returns 1, out of the loop when 0.
RetrySend(t) ==
    /\ pc[t] = "retry"
    /\ \E slept_intr \in BOOLEAN :
         /\ slept_intr => (rc[t] = -1 /\ errno[t] = EAGAIN /\ CanSignal(t)
                             /\ EINTR \in env.outcomes)
         /\ LET r == retry_send(rc[t], errno[t], retries, slept_intr)
            IN  /\ retries' = r.retries
                /\ errno' = Upd(errno, t, r.errno)
                /\ pc' = Upd(pc, t, IF r.ret # 0 THEN "sendto" ELSE "return")
         /\ signals' = Upd(signals, t, IF slept_intr THEN Count(signals[t], MaxIntr)
                                                       ELSE signals[t])
    /\ UNCHANGED <<env, call, builder, str, buffer, nested,
                   rc, ret, attempts, allAgain, run, wrote>>

\* return errno == 0 ? 0 : -1;
Return(t) ==
    /\ pc[t] = "return"
    /\ ret' = Upd(ret, t, IF errno[t] = 0 THEN 0 ELSE -1)
    /\ pc' = Upd(pc, t, "done")
    /\ UNCHANGED <<env, retries, call, builder, str, buffer, nested,
                   errno, rc, attempts, signals, allAgain, run, wrote>>

(* ------------------------------------------------------------------ *)
(* Specification                                                       *)
(* ------------------------------------------------------------------ *)
\* The caller takes the result; the builder's frame is gone.
Leave(t) ==
    /\ pc[t] = "done"
    /\ pc' = Upd(pc, t, "idle")
    /\ call' = Upd(call, t, NoCall)
    /\ builder' = Upd(builder, t, "none")
    /\ str' = Upd(str, t, <<>>)
    /\ buffer' = Upd(buffer, t, ZeroBuffer)
    /\ nested' = Upd(nested, t, <<0, 0>>)
    /\ rc' = Upd(rc, t, 0)
    /\ ret' = Upd(ret, t, 0)
    /\ attempts' = Upd(attempts, t, 0)
    /\ signals' = Upd(signals, t, 0)
    /\ allAgain' = Upd(allAgain, t, TRUE)
    /\ run' = Upd(run, t, 0)
    /\ wrote' = Upd(wrote, t, 0)
    /\ UNCHANGED <<env, retries, errno>>

\* The interleavings explored: thread t takes a step while another thread is
\* inside a call only when that thread is in its loop, or has just returned
\* from a short one, and the counter is at one of IntrPoints. With one thread
\* this is no limit.
Scheduled(t) ==
    \A u \in env.threads \ {t} :
        \/ pc[u] \in {"idle", "crashed"}
        \/ /\ InLoop(u) \/ (pc[u] = "done" /\ attempts[u] <= ShortAttempts)
           /\ retries \in IntrPoints

Next ==
    \/ \E t \in env.threads : Scheduled(t) /\ add_to_ipset(t)
    \/ \E t \in env.threads : Scheduled(t) /\ flush_ipset(t)
    \/ \E t \in env.threads : Scheduled(t) /\ CheckName(t)
    \/ \E t \in env.threads : Scheduled(t) /\ StrlenNull(t)
    \/ \E t \in env.threads : Scheduled(t) /\ WriteHeader(t)
    \/ \E t \in env.threads : Scheduled(t) /\ WriteFamily(t)
    \/ \E t \in env.threads : Scheduled(t) /\ AddProtocol(t)
    \/ \E t \in env.threads : Scheduled(t) /\ AddSetname(t)
    \/ \E t \in env.threads : Scheduled(t) /\ OpenData(t)
    \/ \E t \in env.threads : Scheduled(t) /\ OpenIp(t)
    \/ \E t \in env.threads : Scheduled(t) /\ AddIpaddr(t)
    \/ \E t \in env.threads : Scheduled(t) /\ CloseIp(t)
    \/ \E t \in env.threads : Scheduled(t) /\ CloseData(t)
    \/ \E t \in env.threads : Scheduled(t) /\ AddEther(t)
    \/ \E t \in env.threads : Scheduled(t) /\ Sendto(t)
    \/ \E t \in env.threads : Scheduled(t) /\ RetrySend(t)
    \/ \E t \in env.threads : Scheduled(t) /\ Return(t)
    \/ \E t \in env.threads : Leave(t)

Spec == Init /\ [][Next]_vars

SpecRetry == InitRetry /\ [][Next]_vars

\* The caller of InitLive.
LiveThreads == {1}

\* A thread that can take a step of its loop takes it: the caller runs.
Fairness ==
    \A t \in LiveThreads :
        WF_vars(Sendto(t)) /\ WF_vars(RetrySend(t)) /\ WF_vars(Return(t))

SpecLive == InitLive /\ [][Next]_vars /\ Fairness

SpecConc == InitConc /\ [][Next]_vars

(* ------------------------------------------------------------------ *)
(* Properties                                                          *)
(* ------------------------------------------------------------------ *)
\* Thread t is inside a builder, or has returned from one.
InBuilder(t) == builder[t] # "none"

\* The call of thread t names a set by a string of length n.
NameOfLen(t, n) == ~call[t].setname.null /\ Len(call[t].setname.chars) = n

Returned(t) == pc[t] = "done"

C2_AtCheck(t) ==
    /\ pc[t] = "check" /\ ~call[t].setname.null
    /\ Len(call[t].setname.chars) <= IPSET_MAXNAMELEN - 1

\* C2: in all three builders a set name (not null) of length at most 31 passes
\* the name check (the next step writes the message header, errno untouched) and
\* the builder returns only after a sendto; one of length 32 or more makes it return -1
\* with errno ENAMETOOLONG and without a sendto or a store into the buffer.
C2_NameLengthCeiling ==
    /\ [](\A t \in env.threads :
            (InBuilder(t) /\ ~call[t].setname.null) =>
                IF Len(call[t].setname.chars) <= IPSET_MAXNAMELEN - 1
                THEN /\ pc[t] # "crashed"
                     /\ Returned(t) => attempts[t] >= 1
                ELSE /\ pc[t] \in {"check", "done"}
                     /\ attempts[t] = 0 /\ wrote[t] = 0
                     /\ Returned(t) => ret[t] = -1 /\ errno[t] = ENAMETOOLONG)
    /\ [][\A t \in env.threads :
            (C2_AtCheck(t) /\ pc'[t] # pc[t]) => (pc'[t] = "hdr" /\ errno'[t] = errno[t])]_vars

\* The address builder has sent a message for a set name of length 31 and returned 0.
C2_Witness ==
    \E t \in env.threads :
        /\ Returned(t) /\ builder[t] = "new_add_to_ipset"
        /\ NameOfLen(t, IPSET_MAXNAMELEN - 1)
        /\ attempts[t] >= 1 /\ ret[t] = 0

\* C3 as stated: an empty set name makes every public operation fail without a
\* sendto.
C3_EmptyNameRejected ==
    \A t \in env.threads :
        (InBuilder(t) /\ NameOfLen(t, 0)) =>
            /\ attempts[t] = 0
            /\ pc[t] \in {"check", "done"}
            /\ Returned(t) => ret[t] = -1

\* C3, amended: an empty set name passes the name check of every builder: the
\* builder is never left with ENAMETOOLONG, the message is built with a set-name
\* attribute that holds the terminating zero byte alone (header length 5), and
\* the operation returns only after a sendto.
C3_EmptyNameAccepted ==
    \A t \in env.threads :
        (InBuilder(t) /\ NameOfLen(t, 0)) =>
            /\ pc[t] # "crashed"
            /\ Returned(t) => (attempts[t] >= 1 /\ errno[t] # ENAMETOOLONG)
            /\ attempts[t] >= 1 =>
                 /\ Load16(env.bigEndian, buffer[t], 28) = 5
                 /\ Load16(env.bigEndian, buffer[t], 30) = IPSET_ATTR_SETNAME
                 /\ buffer[t][32] = 0

\* flush_ipset has sent a message for the empty set name and returned 0.
C3_Witness ==
    \E t \in env.threads :
        /\ Returned(t) /\ builder[t] = "flush_ipset" /\ NameOfLen(t, 0)
        /\ attempts[t] = 1 /\ ret[t] = 0

\* C4: a null set name makes every public operation (flush_ipset, and add_to_ipset
\* with a value that is classified and parsed) return -1 without a sendto, and
\* the process never faults.
C4_NullNameRejected ==
    \A t \in env.threads :
        (InBuilder(t) /\ call[t].setname.null) =>
            /\ pc[t] \in {"check", "done"}
            /\ attempts[t] = 0
            /\ Returned(t) => ret[t] = -1

\* C5: add_to_ipset with a value that is neither an address nor a hardware
\* address has returned -1 at once: no builder ran, nothing was stored into a
\* buffer, no sendto was made, and the call left retries (and errno) as they were.
C5_Unclassified(t) == call[t].fn = "add_to_ipset" /\ call[t].val.cls = "none"

C5_ClassificationFailure ==
    /\ [](\A t \in env.threads :
            C5_Unclassified(t) =>
                /\ Returned(t) /\ ret[t] = -1
                /\ builder[t] = "none"
                /\ attempts[t] = 0 /\ wrote[t] = 0 /\ buffer[t] = ZeroBuffer)
    /\ [][\A t \in env.threads :
            (~C5_Unclassified(t) /\ C5_Unclassified(t)') =>
                (retries' = retries /\ errno' = errno)]_vars

\* add_to_ipset has refused a value of neither class, for a set name it would accept.
C5_Witness ==
    \E t \in env.threads :
        /\ C5_Unclassified(t) /\ Returned(t) /\ ret[t] = -1
        /\ NameOfLen(t, 3)

\* The message thread t hands to sendto lies in buffer[t], from 0 to nlmsg_len.
Sent(t) == attempts[t] >= 1
SentLen(t) == NlmsgLen(env.bigEndian, buffer[t])
SentCommand(t) == NlmsgType(env.bigEndian, buffer[t]) % 256
SentSubsys(t) == NlmsgType(env.bigEndian, buffer[t]) \div 256
SentFamily(t) == buffer[t][SizeofNlmsghdr]

\* C6: a message add_to_ipset sends for a hardware address has the command
\* IPSET_CMD_ADD whatever the flag; one it sends for a network address has
\* IPSET_CMD_DEL when the flag is set and IPSET_CMD_ADD when it is not.
C6_CommandCode ==
    \A t \in env.threads :
        (Sent(t) /\ call[t].fn = "add_to_ipset") =>
            /\ SentSubsys(t) = NFNL_SUBSYS_IPSET
            /\ call[t].val.cls = "mac" => SentCommand(t) = IPSET_CMD_ADD
            /\ call[t].val.cls = "ip" =>
                 SentCommand(t) = (IF call[t].flag # 0 THEN IPSET_CMD_DEL ELSE IPSET_CMD_ADD)

\* A message for a hardware address was sent as an add although the flag was set.
C6_Witness ==
    \E t \in env.threads :
        /\ Sent(t) /\ call[t].fn = "add_to_ipset" /\ call[t].val = MacValue
        /\ call[t].flag = 1 /\ SentCommand(t) = IPSET_CMD_ADD

\* A parser of netlink attributes: the attributes between pos and end, each with
\* its type, the place and the length of its payload. It reads the length in each
\* attribute's header and moves on by that length rounded up to 4.
Malformed == [type |-> -1, at |-> 0, len |-> 0]

RECURSIVE ParseAttrs(_, _, _, _)
ParseAttrs(be, buf, pos, end) ==
    IF pos >= end THEN <<>>
    ELSE IF pos + 4 > end THEN <<Malformed>>
    ELSE LET len == Load16(be, buf, pos)
         IN  IF len < 4 \/ pos + len > end THEN <<Malformed>>
             ELSE <<[type |-> Load16(be, buf, pos + 2), at |-> pos + 4, len |-> len - 4]>>
                  \o ParseAttrs(be, buf, pos + ((len + 3) \div 4) * 4, end)

\* The payload bytes of a parsed attribute.
Payload(buf, a) == [i \in 1..a.len |-> buf[a.at + i - 1]]

\* The attributes of thread t's message, after the two headers.
SentAttrs(t) ==
    ParseAttrs(env.bigEndian, buffer[t], SizeofNlmsghdr + SizeofNfgenmsg, SentLen(t))

\* C7: a message flush_ipset sends has the family AF_INET and the command
\* IPSET_CMD_FLUSH, and holds the message header, the family header, the
\* protocol attribute and the set-name attribute and nothing else.
C7_FlushMessage ==
    \A t \in env.threads :
        (Sent(t) /\ call[t].fn = "flush_ipset") =>
            /\ SentFamily(t) = AF_INET
            /\ SentCommand(t) = IPSET_CMD_FLUSH
            /\ SentSubsys(t) = NFNL_SUBSYS_IPSET
            /\ Len(SentAttrs(t)) = 2
            /\ SentAttrs(t)[1].type = IPSET_ATTR_PROTOCOL
            /\ SentAttrs(t)[2].type = IPSET_ATTR_SETNAME
            /\ SentLen(t) = SentAttrs(t)[2].at + ((SentAttrs(t)[2].len + 3) \div 4) * 4
            /\ SentLen(t) = 28 + ((4 + Len(str[t]) + 1 + 3) \div 4) * 4

\* flush_ipset has sent a message for a set name of length 5.
C7_Witness ==
    \E t \in env.threads :
        /\ Sent(t) /\ call[t].fn = "flush_ipset" /\ NameOfLen(t, 5)
        /\ SentFamily(t) = AF_INET /\ Len(SentAttrs(t)) = 2

\* The length of the payload of the add_attr call thread t stands before.
C8_PayloadLen(t) ==
    CASE pc[t] = "proto" -> 1
      [] pc[t] = "name" -> Len(str[t]) + 1
      [] pc[t] = "ipaddr" -> INADDRSZ
      [] OTHER -> INETHSZ

\* Thread t takes an add_attr step.
C8_AttrStep(t) ==
    /\ pc[t] \in {"proto", "name", "ipaddr", "ether"}
    /\ pc'[t] \notin {pc[t], "crashed"}

\* What the step wrote into nla_len, and how far nlmsg_len moved.
C8_HeaderLen(t) ==
    Load16(env.bigEndian, buffer'[t], ((NlmsgLen(env.bigEndian, buffer[t]) + 3) \div 4) * 4)
C8_Advance(t) == NlmsgLen(env.bigEndian, buffer'[t]) - NlmsgLen(env.bigEndian, buffer[t])

\* C8 as stated: the length add_attr writes into an attribute's header is a
\* multiple of 4, at least 4 + the payload length, and equal to the advance of
\* nlmsg_len.
C8_HeaderLenAligned ==
    [][\A t \in env.threads :
         C8_AttrStep(t) =>
            /\ C8_HeaderLen(t) % 4 = 0
            /\ C8_HeaderLen(t) >= 4 + C8_PayloadLen(t)
            /\ C8_HeaderLen(t) = C8_Advance(t)]_vars

\* C8, amended: the length add_attr writes into an attribute's header is exactly
\* 4 + the payload length, not aligned; nlmsg_len advances by that length rounded
\* up to a multiple of 4, which is at least 4 + the payload length.
C8_HeaderLenUnaligned ==
    [][\A t \in env.threads :
         C8_AttrStep(t) =>
            /\ C8_HeaderLen(t) = 4 + C8_PayloadLen(t)
            /\ C8_Advance(t) % 4 = 0
            /\ C8_Advance(t) >= C8_HeaderLen(t)
            /\ C8_Advance(t) < C8_HeaderLen(t) + 4]_vars

\* The protocol attribute has been appended: its header holds the length 5 and
\* nlmsg_len has moved by 8.
C8_Witness ==
    \E t \in env.threads :
        /\ pc[t] = "name"
        /\ Load16(env.bigEndian, buffer[t], 20) = 5
        /\ NlmsgLen(env.bigEndian, buffer[t]) = 28

\* The length in the header of the frame that starts at `start`.
C9_FrameLen(t, start) == Load16(env.bigEndian, buffer[t], start)

\* C9: in new_add_to_ipset the inner frame is closed first: while the outer one is
\* still open the inner one holds the span from its start to nlmsg_len; once both
\* are closed each holds the span from its start to nlmsg_len, and the outer
\* length is the inner length plus the 4 bytes of the outer header.
C9_NestedBackpatch ==
    \A t \in env.threads :
        builder[t] = "new_add_to_ipset" =>
            /\ pc[t] = "close0" =>
                 /\ C9_FrameLen(t, nested[t][2]) = SentLen(t) - nested[t][2]
                 /\ C9_FrameLen(t, nested[t][1]) = 0
            /\ pc[t] \in {"sendto", "retry", "return", "done"} /\ wrote[t] > 0 =>
                 /\ C9_FrameLen(t, nested[t][2]) = SentLen(t) - nested[t][2]
                 /\ C9_FrameLen(t, nested[t][1]) = SentLen(t) - nested[t][1]
                 /\ C9_FrameLen(t, nested[t][1]) = C9_FrameLen(t, nested[t][2]) + 4
                 /\ nested[t][2] = nested[t][1] + 4

\* Both frames of a message for a set name of length 2 are closed: 12 and 16 bytes.
C9_Witness ==
    \E t \in env.threads :
        /\ builder[t] = "new_add_to_ipset" /\ pc[t] = "sendto" /\ NameOfLen(t, 2)
        /\ C9_FrameLen(t, nested[t][2]) = 12
        /\ C9_FrameLen(t, nested[t][1]) = 16

\* The flags of an attribute type stripped.
C10_Kind(type) == type % NLA_F_NET_BYTEORDER

\* The attributes nested in attribute a.
C10_Inside(t, a) == ParseAttrs(env.bigEndian, buffer[t], a.at, a.at + a.len)

\* The address or hardware-address payload a parser finds in thread t's message:
\* the attribute inside DATA inside IP for an address, the ETHER attribute for a
\* hardware address.
C10_DecodedPayload(t) ==
    LET top == SentAttrs(t)
    IN  IF Len(top) # 3 THEN <<>>
        ELSE IF C10_Kind(top[3].type) = IPSET_ATTR_ETHER /\ top[3].type < NLA_F_NESTED
        THEN Payload(buffer[t], top[3])
        ELSE IF top[3].type # NLA_F_NESTED + IPSET_ATTR_DATA THEN <<>>
        ELSE LET mid == C10_Inside(t, top[3])
             IN  IF Len(mid) # 1 \/ mid[1].type # NLA_F_NESTED + IPSET_ATTR_IP THEN <<>>
                 ELSE LET leaf == C10_Inside(t, mid[1])
                      IN  IF Len(leaf) # 1
                             \/ leaf[1].type # NLA_F_NET_BYTEORDER + IPSET_ATTR_IPADDR_IPV4
                          THEN <<>>
                          ELSE Payload(buffer[t], leaf[1])

\* C10: parsing a message a builder sends for a set name that is not null gives
\* back the set name with its terminating zero byte, the family AF_INET that
\* add_to_ipset passes, the command of the call, the protocol version
\* IPSET_PROTOCOL, and the 4 address bytes or the 6 hardware-address bytes.
C10_RoundTrip ==
    \A t \in env.threads :
        (Sent(t) /\ ~call[t].setname.null) =>
            /\ SentLen(t) <= BUFF_SZ
            /\ Len(SentAttrs(t)) >= 2
            /\ SentAttrs(t)[1].type = IPSET_ATTR_PROTOCOL
            /\ Payload(buffer[t], SentAttrs(t)[1]) = <<IPSET_PROTOCOL>>
            /\ SentAttrs(t)[2].type = IPSET_ATTR_SETNAME
            /\ Payload(buffer[t], SentAttrs(t)[2]) = call[t].setname.chars \o <<0>>
            /\ SentFamily(t) = AF_INET
            /\ buffer[t][SizeofNlmsghdr + 1] = NFNETLINK_V0
            /\ SentCommand(t) =
                 (CASE call[t].fn = "flush_ipset" -> IPSET_CMD_FLUSH
                    [] call[t].val.cls = "ip" /\ call[t].flag # 0 -> IPSET_CMD_DEL
                    [] OTHER -> IPSET_CMD_ADD)
            /\ call[t].fn = "add_to_ipset" => C10_DecodedPayload(t) = call[t].val.bytes

\* A remove of an address from a set with a name of length 31 was sent, and the
\* parser finds the four address bytes.
C10_Witness ==
    \E t \in env.threads :
        /\ Sent(t) /\ NameOfLen(t, IPSET_MAXNAMELEN - 1)
        /\ call[t].val = IpValue /\ call[t].flag = 1
        /\ C10_DecodedPayload(t) = <<192, 0, 2, 1>>
        /\ SentLen(t) = 80


(* ------------------------------------------------------------------ *)
(* The retry loop, one caller                                          *)
(* ------------------------------------------------------------------ *)
\* Thread t is past the loop of a builder that sent.
PastLoop(t) == InBuilder(t) /\ Sent(t) /\ pc[t] \in {"return", "done"}

\* The first sendto of the call of thread t was accepted.
C11_FirstAccepted(t) == attempts[t] = 1 /\ rc[t] # -1

\* C11: when the first sendto of an operation is accepted, the operation makes no
\* second sendto; past retry_send the retry counter is zero and errno is zero,
\* and the operation returns 0.
C11_FirstSendAccepted ==
    \A t \in env.threads :
        (InBuilder(t) /\ C11_FirstAccepted(t)) =>
            /\ pc[t] \in {"retry", "return", "done"}
            /\ pc[t] \in {"return", "done"} => (retries = 0 /\ errno[t] = 0)
            /\ pc[t] = "done" => ret[t] = 0

\* A flush has returned 0 after one sendto, which was accepted.
C11_Witness ==
    \E t \in env.threads :
        /\ InBuilder(t) /\ C11_FirstAccepted(t) /\ pc[t] = "done"
        /\ builder[t] = "flush_ipset"
        /\ ret[t] = 0 /\ errno[t] = 0 /\ retries = 0

\* The backpressure failures in a row that retry_send still answers with a retry
\* when the counter is r.
Tolerated(r) == Max(RetryCeiling - r, 0)

\* retry_send is about to look at a sendto of thread t that a signal interrupted.
C12_Interrupted(t) == pc[t] = "retry" /\ rc[t] = -1 /\ errno[t] = EINTR

\* C12: a sendto that fails with EINTR is sent again, however many were interrupted
\* before it, and the backpressure failures still tolerated are no fewer after
\* the interruption than before it.
C12_InterruptionRetried ==
    [][\A t \in env.threads :
          (C12_Interrupted(t) /\ pc'[t] # pc[t]) =>
              /\ pc'[t] = "sendto"
              /\ Tolerated(retries') >= Tolerated(retries)]_vars

\* The sendto after 1000 backpressure failures was interrupted, and the loop is
\* back at sendto.
C12_Witness ==
    \E t \in env.threads :
        /\ pc[t] = "sendto" /\ rc[t] = -1 /\ errno[t] = EINTR
        /\ attempts[t] = RetryCeiling + 1 /\ signals[t] = 1 /\ run[t] = 0
        /\ Tolerated(retries) = RetryCeiling

\* retry_send is about to look at a sendto of thread t that failed with an error
\* other than backpressure and interruption.
C13_OtherError(t) ==
    pc[t] = "retry" /\ rc[t] = -1 /\ errno[t] \notin {0, EAGAIN, EINTR}

\* C13: a sendto that fails with an error other than EAGAIN and EINTR ends the
\* loop with no further sendto, the retry counter is set to zero, errno stays
\* what sendto set, and the operation returns -1.
C13_OtherErrorEndsLoop ==
    /\ [](\A t \in env.threads :
            (PastLoop(t) /\ rc[t] = -1 /\ errno[t] \notin {0, EAGAIN, EINTR}) =>
                /\ retries = 0
                /\ pc[t] = "done" => ret[t] = -1)
    /\ [][\A t \in env.threads :
            /\ (C13_OtherError(t) /\ pc'[t] # pc[t]) =>
                  /\ pc'[t] = "return"
                  /\ retries' = 0
                  /\ errno'[t] = errno[t]
                  /\ attempts'[t] = attempts[t]
            /\ (PastLoop(t) /\ pc[t] = "return" /\ pc'[t] # pc[t]) =>
                  /\ pc'[t] = "done"
                  /\ errno'[t] = errno[t]
                  /\ attempts'[t] = attempts[t]]_vars

\* After backpressure failures that were counted, a sendto failed with ENOBUFS
\* and the operation has returned -1.
C13_Witness ==
    \E t \in env.threads :
        /\ PastLoop(t) /\ pc[t] = "done" /\ ret[t] = -1
        /\ rc[t] = -1 /\ errno[t] = ENOBUFS
        /\ attempts[t] = RetryCeiling /\ signals[t] = 0 /\ retries = 0

\* retry_send is about to look at a sendto of thread t that failed with EAGAIN
\* when the counter has reached the ceiling.
C14_CeilingExhausted(t) ==
    pc[t] = "retry" /\ rc[t] = -1 /\ errno[t] = EAGAIN /\ retries >= RetryCeiling

\* C14: once the retry ceiling is exhausted the loop gives up, the retry counter
\* is set to zero, and the operation returns -1 with errno the EAGAIN of the last
\* sendto.
C14_CeilingGivesUp ==
    /\ [][\A t \in env.threads :
            (C14_CeilingExhausted(t) /\ pc'[t] # pc[t]) =>
                /\ pc'[t] = "return"
                /\ retries' = 0
                /\ errno'[t] = EAGAIN]_vars
    /\ [](\A t \in env.threads :
            (PastLoop(t) /\ run[t] > RetryCeiling /\ pc[t] = "done") =>
                (ret[t] = -1 /\ errno[t] = EAGAIN /\ retries = 0))

\* There is one caller.
SingleThreaded == Cardinality(env.threads) = 1

\* C19: with one caller the retry counter is zero whenever the caller is not in
\* the loop of a builder: when an operation starts, while it builds, and when it
\* returns.
C19_CounterZeroOutsideLoop ==
    SingleThreaded => \A t \in env.threads : ~InLoop(t) => retries = 0

\* An operation has given up after 1001 backpressure failures in a row, and the
\* counter is zero again.
C19_Witness ==
    \E t \in env.threads :
        /\ SingleThreaded /\ PastLoop(t) /\ pc[t] = "done" /\ ret[t] = -1
        /\ run[t] = RetryCeiling + 1 /\ errno[t] = EAGAIN /\ retries = 0

\* C20: an interrupted sendto sets the retry counter to zero and the loop goes on,
\* so the counter at sendto is at most the backpressure failures since the last
\* interruption, and with one caller a loop gives up on backpressure only after
\* 1001 such failures in a row: a loop whose runs of backpressure failures are
\* at most 1000 long, with interruptions between them, never gives up.
C20_CeilingBoundsRun ==
    /\ [](SingleThreaded =>
            \A t \in env.threads :
                /\ pc[t] = "sendto" => retries <= run[t]
                /\ (PastLoop(t) /\ rc[t] = -1 /\ errno[t] = EAGAIN) =>
                       run[t] = RetryCeiling + 1)
    /\ [][\A t \in env.threads :
            (pc[t] = "retry" /\ rc[t] = -1 /\ errno[t] = EINTR /\ run[t] = 0
                /\ pc'[t] # pc[t]) =>
                (retries' = 0 /\ InLoop(t)')]_vars

\* The loop goes on past 1001 attempts: 1000 backpressure failures, an
\* interrupted sendto, one more backpressure failure.
C20_Witness ==
    \E t \in env.threads :
        /\ SingleThreaded /\ pc[t] = "sendto"
        /\ attempts[t] = RetryCeiling + 2 /\ signals[t] = 1
        /\ run[t] = 1 /\ retries = 1

(* ------------------------------------------------------------------ *)
(* The length of the message while it is built                          *)
(* ------------------------------------------------------------------ *)
RECURSIVE SumSeq(_)
SumSeq(q) == IF q = <<>> THEN 0 ELSE Head(q) + SumSeq(Tail(q))

\* n rounded up to a multiple of 4.
C17_Aligned(n) == 4 * ((n + 3) \div 4)

\* The aligned sizes of what the builder of thread t writes, in the order of
\* writing: header, family sub-header, protocol and set-name attributes, then
\* the two frame headers and the address attribute, or the hardware address.
C17_Sizes(t) ==
    LET common == << C17_Aligned(SizeofNlmsghdr), C17_Aligned(SizeofNfgenmsg),
                     C17_Aligned(SizeofNlattr + 1),
                     C17_Aligned(SizeofNlattr + Len(str[t]) + 1) >>
    IN  CASE builder[t] = "new_add_to_ipset" ->
                 common \o << C17_Aligned(SizeofNlattr), C17_Aligned(SizeofNlattr),
                              C17_Aligned(SizeofNlattr + INADDRSZ) >>
          [] builder[t] = "new_add_mac_to_ipset" ->
                 common \o << C17_Aligned(SizeofNlattr + INETHSZ) >>
          [] OTHER -> common

\* How many of them are written when thread t is at its step.
C17_Written(t) ==
    CASE pc[t] = "nfg" -> 1
      [] pc[t] = "proto" -> 2
      [] pc[t] = "name" -> 3
      [] pc[t] \in {"open0", "ether"} -> 4
      [] pc[t] = "open1" -> 5
      [] pc[t] = "ipaddr" -> 6
      [] pc[t] \in {"close1", "close0"} -> 7
      [] pc[t] = "sendto" \/ (pc[t] \in {"retry", "return", "done"} /\ Sent(t)) ->
             Len(C17_Sizes(t))
      [] OTHER -> 0

\* C17: at every step of each of the three builders the header's nlmsg_len is a
\* multiple of 4 and is the sum of the aligned sizes of what is written so far;
\* the length given to sendto, which an accepted sendto returns, is nlmsg_len.
C17_LengthIsAlignedSum ==
    \A t \in env.threads :
        pc[t] # "crashed" =>
            LET len == NlmsgLen(env.bigEndian, buffer[t])
            IN  /\ len % 4 = 0
                /\ len = SumSeq(SubSeq(C17_Sizes(t), 1, C17_Written(t)))
                /\ (Sent(t) /\ rc[t] # -1) => rc[t] = len

\* An address was added to a set with a name of 31 characters and sendto
\* accepted the whole message.
C17_Witness ==
    \E t \in env.threads :
        /\ builder[t] = "new_add_to_ipset" /\ pc[t] = "done"
        /\ Len(str[t]) = IPSET_MAXNAMELEN - 1 /\ ~call[t].setname.null
        /\ Sent(t) /\ rc[t] = SumSeq(C17_Sizes(t))
        /\ rc[t] = NlmsgLen(env.bigEndian, buffer[t])

(* ------------------------------------------------------------------ *)
(* The buffer                                                          *)
(* ------------------------------------------------------------------ *)
\* C18: for every set name that passes the check and every builder the length of
\* the message is at most BUFF_SZ at every step, every store of an append or a
\* backpatch ends within the BUFF_SZ bytes of buffer, and no step of a builder
\* given a set name faults.
C18_WithinBuffer ==
    \A t \in env.threads :
        /\ NlmsgLen(env.bigEndian, buffer[t]) <= BUFF_SZ
        /\ wrote[t] <= BUFF_SZ
        /\ wrote[t] <= Max(NlmsgLen(env.bigEndian, buffer[t]), SizeofNlmsghdr)
        /\ pc[t] = "crashed" => \E u \in env.threads : call[u].setname.null

\* The longest message is built: an address for a set with a name of 31
\* characters, both frames closed.
C18_Witness ==
    \E t \in env.threads :
        /\ builder[t] = "new_add_to_ipset" /\ pc[t] = "sendto" /\ attempts[t] = 0
        /\ NameOfLen(t, IPSET_MAXNAMELEN - 1)
        /\ wrote[t] = NlmsgLen(env.bigEndian, buffer[t])
        /\ wrote[t] = SumSeq(C17_Sizes(t))

(* ------------------------------------------------------------------ *)
(* Interrupted sends and termination                                   *)
(* ------------------------------------------------------------------ *)
\* C15 as stated: when the caller keeps running, every loop that sees an
\* interrupted sendto ends, and the operation returns 0 or fails with an errno
\* other than EINTR.
C15_InterruptionResolves ==
    \A t \in LiveThreads :
        C12_Interrupted(t) ~>
            (pc[t] = "done" /\ (ret[t] = 0 \/ errno[t] # EINTR))

\* A signal interrupts thread t in its loop now: its sendto, or its nanosleep at
\* the exhausted ceiling.
C15_Signalled(t) == InLoop(t) /\ rc[t] = -1 /\ errno[t] = EINTR

\* C15 amended: an interrupted sendto is sent again; no operation returns with
\* errno = EINTR, it returns 0 with errno = 0 or -1 with another errno; and when
\* the caller keeps running, a loop that sees an interrupted sendto ends unless
\* signals interrupt it for ever.
C15_ResolvesUnlessInterruptedForever ==
    /\ [](\A t \in env.threads :
            PastLoop(t) =>
                /\ errno[t] # EINTR
                /\ pc[t] = "done" => (ret[t] = 0 <=> errno[t] = 0))
    /\ [][\A t \in env.threads :
            (C12_Interrupted(t) /\ pc'[t] # pc[t]) =>
                (pc'[t] = "sendto" /\ errno'[t] = EINTR)]_vars
    /\ \A t \in LiveThreads :
            (<>[](~C15_Signalled(t))) => (C12_Interrupted(t) ~> pc[t] = "done")

\* After an interrupted sendto the next one was accepted and the operation has
\* returned 0.
C15_Witness ==
    \E t \in env.threads :
        /\ PastLoop(t) /\ pc[t] = "done" /\ ret[t] = 0 /\ errno[t] = 0
        /\ signals[t] >= 1 /\ rc[t] # -1 /\ attempts[t] = 2

(* ------------------------------------------------------------------ *)
(* The retry loop, two callers                                         *)
(* ------------------------------------------------------------------ *)
\* Thread t takes its retry_send step.
C16_RetrySendStep(t) == pc[t] = "retry" /\ pc'[t] \in {"sendto", "return"}

\* C16: with two callers in their loops at once there is one budget: whoever's
\* sendto is accepted, the counter is zero afterwards for both; a backpressure
\* failure of either caller is counted on the one counter; and a caller gives
\* up on backpressure exactly when that counter has reached the ceiling,
\* whatever the number of its own failures.
C16_SharedBudget ==
    /\ [](retries \in 0..RetryCeiling)
    /\ [][\A t \in env.threads :
            C16_RetrySendStep(t) =>
                /\ rc[t] # -1 => (retries' = 0 /\ pc'[t] = "return")
                /\ (rc[t] = -1 /\ errno[t] = EAGAIN) =>
                       IF retries < RetryCeiling
                       THEN retries' = retries + 1 /\ pc'[t] = "sendto"
                       ELSE retries' = 0 /\ pc'[t] = "return"]_vars

\* Thread t is back at sendto after 1001 backpressure failures of its own and
\* no signal, because thread u took the give-up at the ceiling: u has returned
\* -1 after fewer than 1000 failures of its own.
C16_Witness ==
    \E t, u \in env.threads :
        /\ t # u
        /\ pc[t] = "sendto" /\ allAgain[t] /\ signals[t] = 0
        /\ attempts[t] = RetryCeiling + 1
        /\ pc[u] = "done" /\ ret[u] = -1 /\ errno[u] = EAGAIN
        /\ allAgain[u] /\ signals[u] = 0
        /\ attempts[u] >= 1 /\ attempts[u] < RetryCeiling

====
